---------------------------- MODULE Spec2Model ----------------------------
(***************************************************************************)
(* ems-flasher, src/main.c: the cartridge header validator (header_info)   *)
(* and the block transfer loops of main (MODE_READ, MODE_WRITE,            *)
(* MODE_TITLE).                                                            *)
(*                                                                         *)
(* One behaviour is one run of the program.  The initial state is the      *)
(* state after get_options has filled "opts"; the environment of the run   *)
(* (the byte the cartridge holds at 0x148 of the selected bank, the length *)
(* of the input file) is fixed in the initial state as well.  Every step   *)
(* is one statement group of main: ems_init, malloc, fopen, one iteration  *)
(* of a transfer loop, the end of a loop, one header read of --title.      *)
(*                                                                         *)
(* Numbers are C values.  TLC's integers are 32-bit signed, so a length a  *)
(* C long can hold and an int cannot (the input file's length) is kept as  *)
(* a pair <<hi, lo>> standing for hi * 2^30 + lo.                          *)
(***************************************************************************)
EXTENDS Integers, Sequences, FiniteSets

\* ------------------------------------------------------------ constants

BANK_SIZE == 4194304
SRAM_SIZE == 131072

\* ems.h is not part of the sources at hand.  FROM_ROM and FROM_SRAM are the
\* indices at which limits[] holds the size of each space; TO_ROM and TO_SRAM
\* name the same two spaces for a write.
FROM_ROM == 1
FROM_SRAM == 2
TO_ROM == FROM_ROM
TO_SRAM == FROM_SRAM

\* const int limits[3] = {0, BANK_SIZE, SRAM_SIZE}, indexed by the space
limits(sp) == CASE sp = 0 -> 0
                [] sp = 1 -> BANK_SIZE
                [] sp = 2 -> SRAM_SIZE

MODE_READ == 1
MODE_WRITE == 2
MODE_TITLE == 3

HEADER_LOGO == 260
HEADER_TITLE == 308
HEADER_ROMSIZE == 328
HEADER_CHKSUM == 333

BLOCKSIZE_READ == 4096
BLOCKSIZE_WRITE == 32

INT_MAX == 2147483647
TwoPow30 == 1073741824

nintylogo ==
    << 206, 237, 102, 102, 204,  13,   0,  11,
         3, 115,   0, 131,   0,  12,   0,  13,
         0,   8,  17,  31, 136, 137,   0,  14,
       220, 204, 110, 230, 221, 221, 217, 153,
       187, 187, 103,  99, 110,  14, 236, 204,
       221, 220, 153, 159, 187, 185,  51,  62 >>

\* --------------------------------------------------------------- bounds

\* a header's logo field differs from nintylogo in at most this many bytes
MaxLogoMismatches == 2

\* ---------------------------------------------------------- arithmetic

RECURSIVE Pow2(_)
Pow2(n) == IF n = 0 THEN 1 ELSE 2 * Pow2(n - 1)

\* a << n on int operands
Shl(a, n) == a * Pow2(n)

\* (int) of an unsigned 32-bit value.  A value above INT_MAX wraps to a
\* negative int; every sum formed below stays at or under INT_MAX.
IntCast(x) == IF x <= INT_MAX THEN x ELSE ((x - INT_MAX) - INT_MAX) - 2

\* int size = ftell(f) of a file of f[1] * 2^30 + f[2] bytes: the long is
\* cut to its low 32 bits and read as a signed int
FtellAsInt(f) ==
    LET q == f[1] % 4
    IN  IF q < 2 THEN q * TwoPow30 + f[2]
                 ELSE (q - 4) * TwoPow30 + f[2]

\* whether the file holds at least n more bytes at position pos
\* (pos + n <= INT_MAX)
FileHasBlock(f, pos, n) ==
    IF f[1] >= 2 THEN TRUE ELSE pos + n <= f[1] * TwoPow30 + f[2]

\* the file's true length exceeds n (n < 2^30)
FileLonger(f, n) == f[1] >= 1 \/ f[2] > n


\* ------------------------------------------------------ header validator

Unknown == -1

\* A header image is given by the set of logo positions that differ from
\* nintylogo, the first title byte, the ROM size code and the checksum byte;
\* every other byte of 0x134..0x14D is zero.
HeaderByte(h, a) ==
    IF a >= HEADER_LOGO /\ a < HEADER_LOGO + 48
    THEN IF (a - HEADER_LOGO) \in h.diff
         THEN (nintylogo[a - HEADER_LOGO + 1] + 1) % 256
         ELSE nintylogo[a - HEADER_LOGO + 1]
    ELSE IF a = HEADER_TITLE THEN h.title
    ELSE IF a = HEADER_ROMSIZE THEN h.code
    ELSE IF a = HEADER_CHKSUM THEN h.chk
    ELSE 0

\* the checksum byte that makes the header sum to zero
GoodChk(t, c) == (256 - ((25 + t + c) % 256)) % 256

RECURSIVE DiffSets(_)
DiffSets(n) ==
    IF n = 0 THEN {{}}
    ELSE LET P == DiffSets(n - 1)
         IN  P \cup {S \cup {i} : S \in P, i \in 0..47}

\* headers with a damaged logo, with a good and with a bad checksum
LogoHeaders ==
    {[diff |-> S, title |-> 0, code |-> 0, chk |-> x] :
        S \in DiffSets(MaxLogoMismatches), x \in {GoodChk(0, 0), 1}}

\* headers with the full logo and every ROM size code
CodeHeaders ==
    {[diff |-> {}, title |-> t, code |-> c, chk |-> GoodChk(t, c)] :
        t \in {0, 65}, c \in 0..255}

RefHeader == [diff |-> {}, title |-> 0, code |-> 0, chk |-> GoodChk(0, 0)]

\* for(i = 0; i < 0x30; ++i) if (nintylogo[i] != buf[HEADER_LOGO + i]) break;
RECURSIVE LogoScan(_, _)
LogoScan(h, i) ==
    IF i < 48 /\ nintylogo[i + 1] = HeaderByte(h, HEADER_LOGO + i)
    THEN LogoScan(h, i + 1)
    ELSE i

WillbootAfterLogo_Ge(i) ==
    IF i = 48 THEN 2 ELSE IF i >= 24 THEN 1 ELSE 0

\* willboot after the logo check (initially 2)
WillbootAfterLogo(i) ==
    IF i = 48 THEN 2 ELSE IF i > 24 THEN 1 ELSE 0

\* uint8_t calculated_chk: the sum of buf[HEADER_TITLE..HEADER_CHKSUM]
RECURSIVE ChkSum(_, _, _)
ChkSum(h, i, acc) ==
    IF i <= HEADER_CHKSUM
    THEN ChkSum(h, i + 1, (acc + HeaderByte(h, i)) % 256)
    ELSE acc

CalculatedChk(h) == (ChkSum(h, HEADER_TITLE, 0) + 25) % 256

\* willboot after the checksum check
WillbootAfterChk(w, chk) == IF chk # 0 THEN 0 ELSE w

\* the "Rom size" line of header_info, in KB
HeaderRomSizeKB(c) ==
    CASE c \in 0..7 -> Shl(32, c)
      [] c = 82 -> 1152
      [] c = 83 -> 1280
      [] c = 84 -> 1536
      [] OTHER -> Unknown

\* the "Boot status" line of header_info
BootStatus(w) ==
    CASE w = 0 -> "None"
      [] w = 1 -> "CgbOnly"
      [] OTHER -> "Universal"


\* ------------------------------------------------------------ the state

VARIABLES
    mode,           \* opts.mode
    blocksize,      \* opts.blocksize, after the default has been applied
    bank,           \* opts.bank (0 or 1)
    space,          \* the space main resolves (FROM_ROM, FROM_SRAM; 0: --title)
    cartCode,       \* the byte the cartridge holds at 0x148 of the bank read
    inFile,         \* <<hi, lo>>: the input file is hi * 2^30 + lo bytes long
    cart,           \* the headers of bank 0 and bank 1 (--title)
    pc,             \* the position in main
    exitStatus,     \* the process's exit status (-1 while it runs)
    devClaimed,     \* the device handle is held
    fileOpen,       \* a FILE* is open and the program has not closed it
    offset,
    readuntil,
    untilset,
    size,           \* int size = ftell(write_file)
    fileBytes,      \* bytes fwrite has put into the output file
    devBytes,       \* bytes ems_write has put on the device
    devCalls,       \* ems_read / ems_write calls issued by a transfer loop
    lastCall,       \* the latest of those calls
    failedAt,       \* the offset of a failed device call (-1: none)
    sizeByte,       \* the byte the read loop's switch was applied to (-1: none)
    decIdx,         \* the buffer index that byte was read from (-1: none)
    bufBank,        \* the bank whose header buf holds in --title (-1: none)
    logo_i,         \* header_info's i after the logo loop
    willboot,
    calculated_chk,
    romSizeKB       \* header_info's ROM size line

cfgVars == <<mode, blocksize, bank, space, cartCode, inFile, cart>>
xferVars == <<offset, readuntil, untilset, size, fileBytes, devBytes,
              devCalls, lastCall, failedAt, sizeByte, decIdx>>
titleVars == <<bufBank, logo_i, willboot, calculated_chk, romSizeKB>>
vars == <<cfgVars, xferVars, titleVars, pc, exitStatus, devClaimed, fileOpen>>

NoCall == [op |-> "none", space |-> 0, addr |-> 0, len |-> 0, off |-> 0,
           bound |-> 0]

\* ------------------------------------------------------ the runs checked

\* the ROM size codes the table names, and two it does not
TableCodes == (0..7) \cup {82, 83, 84}
SizeCodes == TableCodes \cup {8, 255}

\* what a read one byte past the end of buf may return
OobBytes == {0, 1, 84, 255}

NoFile == <<0, 0>>

ReadRuns ==
    \* the default block size, sizes that divide nothing, sizes above a
    \* declared ROM size, above the space and at the top of int
    {[mode |-> MODE_READ, blocksize |-> bs, bank |-> b, space |-> sp,
      cartCode |-> c, inFile |-> NoFile] :
        bs \in {BLOCKSIZE_READ, 5000, 65536, BANK_SIZE, BANK_SIZE + 1, INT_MAX},
        b \in {0, 1}, sp \in {FROM_ROM, FROM_SRAM}, c \in SizeCodes}
    \cup
    \* block sizes at the ROM size byte's offset: 328 ends a block at 0x148,
    \* 329 ends it one byte later
    {[mode |-> MODE_READ, blocksize |-> bs, bank |-> b, space |-> sp,
      cartCode |-> c, inFile |-> NoFile] :
        bs \in {HEADER_ROMSIZE, HEADER_ROMSIZE + 1},
        b \in {0, 1}, sp \in {FROM_ROM, FROM_SRAM}, c \in {0, 1}}
    \cup
    \* every byte value as the ROM size code
    {[mode |-> MODE_READ, blocksize |-> 1048576, bank |-> b,
      space |-> FROM_ROM, cartCode |-> c, inFile |-> NoFile] :
        b \in {0, 1}, c \in 0..255}

\* input files: empty, shorter than a block, a block multiple plus a tail,
\* at and one past each cap, 5 MiB, 3 GiB, 4 GiB + 10
SmallFiles == {<<0, 0>>, <<0, 31>>, <<0, 32772>>}
BigFiles == {<<0, SRAM_SIZE>>, <<0, SRAM_SIZE + 1>>, <<0, BANK_SIZE>>,
             <<0, BANK_SIZE + 1>>, <<0, 5242880>>, <<3, 0>>, <<4, 10>>}

WriteRuns ==
    {[mode |-> MODE_WRITE, blocksize |-> bs, bank |-> b, space |-> sp,
      cartCode |-> 0, inFile |-> f] :
        bs \in {4096, 5000, SRAM_SIZE, BANK_SIZE, INT_MAX},
        b \in {0, 1}, sp \in {TO_ROM, TO_SRAM}, f \in SmallFiles \cup BigFiles}
    \cup
    {[mode |-> MODE_WRITE, blocksize |-> BLOCKSIZE_WRITE, bank |-> b,
      space |-> sp, cartCode |-> 0, inFile |-> f] :
        b \in {0, 1}, sp \in {TO_ROM, TO_SRAM}, f \in SmallFiles}

\* --title: no file, so blocksize stays 0 and space stays 0
TitleRun == [mode |-> MODE_TITLE, blocksize |-> 0, bank |-> 0, space |-> 0,
             cartCode |-> 0, inFile |-> NoFile]

Carts ==
    {<<h, RefHeader>> : h \in LogoHeaders \cup CodeHeaders}
    \cup {<<RefHeader, h>> : h \in CodeHeaders}

Init ==
    /\ \E run \in ReadRuns \cup WriteRuns \cup {TitleRun} :
          /\ mode = run.mode
          /\ blocksize = run.blocksize
          /\ bank = run.bank
          /\ space = run.space
          /\ cartCode = run.cartCode
          /\ inFile = run.inFile
          /\ cart \in (IF run.mode = MODE_TITLE THEN Carts
                       ELSE {<<RefHeader, RefHeader>>})
    /\ pc = "ems_init"
    /\ exitStatus = -1
    /\ devClaimed = FALSE
    /\ fileOpen = FALSE
    /\ offset = 0
    /\ readuntil = 0
    /\ untilset = 0
    /\ size = 0
    /\ fileBytes = 0
    /\ devBytes = 0
    /\ devCalls = 0
    /\ lastCall = NoCall
    /\ failedAt = -1
    /\ sizeByte = -1
    /\ decIdx = -1
    /\ bufBank = -1
    /\ logo_i = 0
    /\ willboot = 2
    /\ calculated_chk = 0
    /\ romSizeKB = Unknown


\* --------------------------------------------------------- process exit

\* ems.c is not part of the sources at hand.  Its ems_init is taken to
\* arrange for the device to be released when the process exits, on every
\* exit path.
DeviceReleasedAtExit == TRUE

\* return from main, err(), errx(): the process ends with this status.
\* fileOpen is left as it is: it records what the program itself closed.
Terminate(status) ==
    /\ pc' = "exited"
    /\ exitStatus' = status
    /\ devClaimed' = (devClaimed /\ ~DeviceReleasedAtExit)

\* ------------------------------------------------------------- start-up

\* r = ems_init(); if (r < 0) return 1;
EmsInitFail ==
    /\ pc = "ems_init"
    /\ Terminate(1)
    /\ UNCHANGED <<cfgVars, xferVars, titleVars, fileOpen>>

EmsInitOk ==
    /\ pc = "ems_init"
    /\ devClaimed' = TRUE
    /\ pc' = "malloc"
    /\ UNCHANGED <<cfgVars, xferVars, titleVars, exitStatus, fileOpen>>

\* buf = malloc(blocksize); if (buf == NULL) err(1, "malloc");
MallocFail ==
    /\ pc = "malloc"
    /\ Terminate(1)
    /\ UNCHANGED <<cfgVars, xferVars, titleVars, fileOpen>>

\* offset = 0, base = opts.bank * BANK_SIZE, then the branch on opts.mode
MallocOk ==
    /\ pc = "malloc"
    /\ pc' = CASE mode = MODE_READ -> "fopen_w"
               [] mode = MODE_WRITE -> "fopen_r"
               [] OTHER -> "title0"
    /\ offset' = 0
    /\ UNCHANGED <<cfgVars, readuntil, untilset, size, fileBytes, devBytes,
                   devCalls, lastCall, failedAt, sizeByte, decIdx, titleVars,
                   exitStatus, devClaimed, fileOpen>>

base == bank * BANK_SIZE

\* ------------------------------------------------------------ MODE_READ

\* save_file = fopen(opts.file, "w"); if (save_file == NULL) err(1, ...)
OpenReadFail ==
    /\ pc = "fopen_w"
    /\ Terminate(1)
    /\ UNCHANGED <<cfgVars, xferVars, titleVars, fileOpen>>

\* fopen succeeds; unsigned int readuntil = limits[space]; int untilset = 0;
OpenReadOk ==
    /\ pc = "fopen_w"
    /\ fileOpen' = TRUE
    /\ fileBytes' = 0
    /\ readuntil' = limits(space)
    /\ untilset' = 0
    /\ pc' = "read_loop"
    /\ UNCHANGED <<cfgVars, offset, size, devBytes, devCalls, lastCall,
                   failedAt, sizeByte, decIdx, titleVars, exitStatus,
                   devClaimed>>

ReadGuard_Offset == IntCast(offset) <= readuntil

\* while ((int)(offset + blocksize) <= readuntil)
ReadGuard == IntCast(offset + blocksize) <= readuntil

\* ems_read(space, offset + base, buf, blocksize)
ReadCall == [op |-> "read", space |-> space, addr |-> offset + base,
             len |-> blocksize, off |-> offset, bound |-> readuntil]

ReadBlockFail_Retry ==
    /\ pc = "read_loop"
    /\ ReadGuard
    /\ lastCall' = ReadCall
    /\ devCalls' = devCalls + 1
    /\ failedAt' = offset
    /\ UNCHANGED <<cfgVars, offset, readuntil, untilset, size, fileBytes,
                   devBytes, sizeByte, decIdx, titleVars, pc, exitStatus,
                   devClaimed, fileOpen>>

\* r = ems_read(...); if (r < 0) { warnx(...); return 1; }
ReadBlockFail ==
    /\ pc = "read_loop"
    /\ ReadGuard
    /\ lastCall' = ReadCall
    /\ devCalls' = devCalls + 1
    /\ failedAt' = offset
    /\ Terminate(1)
    /\ UNCHANGED <<cfgVars, offset, readuntil, untilset, size, fileBytes,
                   devBytes, sizeByte, decIdx, titleVars, fileOpen>>

\* ems_read succeeds; r = fwrite(buf, blocksize, 1, save_file);
\* if (r != 1) err(1, ...)
ReadBlockFwriteFail ==
    /\ pc = "read_loop"
    /\ ReadGuard
    /\ lastCall' = ReadCall
    /\ devCalls' = devCalls + 1
    /\ Terminate(1)
    /\ UNCHANGED <<cfgVars, offset, readuntil, untilset, size, fileBytes,
                   devBytes, failedAt, sizeByte, decIdx, titleVars, fileOpen>>

NarrowCond_NoFlag(off) == off >= HEADER_ROMSIZE /\ space = FROM_ROM

\* if (offset >= HEADER_ROMSIZE && untilset == 0 && space == FROM_ROM),
\* with offset already advanced
NarrowCond(off) ==
    off >= HEADER_ROMSIZE /\ untilset = 0 /\ space = FROM_ROM

\* the index HEADER_ROMSIZE - (offset - blocksize) into buf
BufIndex(off) == HEADER_ROMSIZE - (off - blocksize)

\* buf[idx]: buf holds the block that starts at off - blocksize, so an index
\* inside buf reads the cartridge's byte at 0x148; an index outside buf
\* reads memory the program does not own, which may hold anything
BufByteChoices(idx) ==
    IF idx \in 0..(blocksize - 1) THEN {cartCode} ELSE OobBytes

ReadUntilAfter_Slip(code, cur) ==
    CASE code \in 0..7 -> Shl(32, code) * 1024
      [] code = 82 -> 1152 * 1024
      [] code = 83 -> 1152 * 1024
      [] code = 84 -> 1536 * 1024
      [] OTHER -> cur

\* the switch that sets readuntil from the ROM size code
ReadUntilAfter(code, cur) ==
    CASE code \in 0..7 -> Shl(32, code) * 1024
      [] code = 82 -> 1152 * 1024
      [] code = 83 -> 1280 * 1024
      [] code = 84 -> 1536 * 1024
      [] OTHER -> cur

\* one full iteration of the read loop
ReadBlockOk ==
    /\ pc = "read_loop"
    /\ ReadGuard
    /\ lastCall' = ReadCall
    /\ devCalls' = devCalls + 1
    /\ fileBytes' = fileBytes + blocksize
    /\ offset' = offset + blocksize
    /\ IF NarrowCond(offset + blocksize)
       THEN \E b \in BufByteChoices(BufIndex(offset + blocksize)) :
               /\ sizeByte' = b
               /\ decIdx' = BufIndex(offset + blocksize)
               /\ readuntil' = ReadUntilAfter(b, readuntil)
               /\ untilset' = 1
       ELSE UNCHANGED <<sizeByte, decIdx, readuntil, untilset>>
    /\ UNCHANGED <<cfgVars, size, devBytes, failedAt, titleVars, pc,
                   exitStatus, devClaimed, fileOpen>>

\* the loop ends; fclose(save_file); free(buf); return 0;
ReadDone ==
    /\ pc = "read_loop"
    /\ ~ReadGuard
    /\ fileOpen' = FALSE
    /\ Terminate(0)
    /\ UNCHANGED <<cfgVars, xferVars, titleVars>>


\* ----------------------------------------------------------- MODE_WRITE

\* write_file = fopen(opts.file, "r"); if (write_file == NULL) err(1, ...)
OpenWriteFail ==
    /\ pc = "fopen_r"
    /\ Terminate(1)
    /\ UNCHANGED <<cfgVars, xferVars, titleVars, fileOpen>>

\* fopen succeeds; fseek(SEEK_END); int size = ftell(write_file); rewind
OpenWriteOk ==
    /\ pc = "fopen_r"
    /\ fileOpen' = TRUE
    /\ size' = FtellAsInt(inFile)
    /\ pc' = "size_check"
    /\ UNCHANGED <<cfgVars, offset, readuntil, untilset, fileBytes, devBytes,
                   devCalls, lastCall, failedAt, sizeByte, decIdx, titleVars,
                   exitStatus, devClaimed>>

\* size > 4*1024*1024 && space == TO_ROM, else size > 128*1024 && TO_SRAM
SizeTooLarge ==
    \/ (size > 4 * 1024 * 1024 /\ space = TO_ROM)
    \/ (size > 128 * 1024 /\ space = TO_SRAM)

\* err(1, "... file %s is %d bytes large, max is %d", ...)
SizeCheckFail ==
    /\ pc = "size_check"
    /\ SizeTooLarge
    /\ Terminate(1)
    /\ UNCHANGED <<cfgVars, xferVars, titleVars, fileOpen>>

SizeCheckOk ==
    /\ pc = "size_check"
    /\ ~SizeTooLarge
    /\ pc' = "write_loop"
    /\ UNCHANGED <<cfgVars, xferVars, titleVars, exitStatus, devClaimed,
                   fileOpen>>

\* (int)(offset + blocksize) <= limits[space]
WriteGuard == IntCast(offset + blocksize) <= limits(space)

\* fread(buf, blocksize, 1, write_file) == 1 needs a whole block in the file
FreadHasBlock == FileHasBlock(inFile, offset, blocksize)

\* ems_write(space, offset + base, buf, blocksize)
WriteCall == [op |-> "write", space |-> space, addr |-> offset + base,
              len |-> blocksize, off |-> offset, bound |-> limits(space)]

\* r = ems_write(...); if (r < 0) { warnx(...); return 1; }
WriteBlockFail ==
    /\ pc = "write_loop"
    /\ WriteGuard
    /\ FreadHasBlock
    /\ lastCall' = WriteCall
    /\ devCalls' = devCalls + 1
    /\ failedAt' = offset
    /\ Terminate(1)
    /\ UNCHANGED <<cfgVars, offset, readuntil, untilset, size, fileBytes,
                   devBytes, sizeByte, decIdx, titleVars, fileOpen>>

\* one full iteration of the write loop
WriteBlockOk ==
    /\ pc = "write_loop"
    /\ WriteGuard
    /\ FreadHasBlock
    /\ lastCall' = WriteCall
    /\ devCalls' = devCalls + 1
    /\ devBytes' = devBytes + blocksize
    /\ offset' = offset + blocksize
    /\ UNCHANGED <<cfgVars, readuntil, untilset, size, fileBytes, failedAt,
                   sizeByte, decIdx, titleVars, pc, exitStatus, devClaimed,
                   fileOpen>>

\* the loop condition is false: the space is full or the file has no whole
\* block left; fclose(write_file); free(buf); return 0;
WriteDone ==
    /\ pc = "write_loop"
    /\ ~(WriteGuard /\ FreadHasBlock)
    /\ fileOpen' = FALSE
    /\ Terminate(0)
    /\ UNCHANGED <<cfgVars, xferVars, titleVars>>

\* fread returns 0 on a read error as it does at the end of the file: the
\* loop ends the same way
WriteFreadError ==
    /\ pc = "write_loop"
    /\ WriteGuard
    /\ FreadHasBlock
    /\ fileOpen' = FALSE
    /\ Terminate(0)
    /\ UNCHANGED <<cfgVars, xferVars, titleVars>>

\* ----------------------------------------------------------- MODE_TITLE

TitleBank == IF pc = "title0" THEN 0 ELSE 1

\* r = ems_read(FROM_ROM, 0 or BANK_SIZE, buf, 512); if (r < 0) errx(1, ...)
TitleReadFail ==
    /\ pc \in {"title0", "title1"}
    /\ lastCall' = [op |-> "hdr", space |-> FROM_ROM,
                    addr |-> TitleBank * BANK_SIZE, len |-> 512,
                    off |-> 0, bound |-> 0]
    /\ Terminate(1)
    /\ UNCHANGED <<cfgVars, offset, readuntil, untilset, size, fileBytes,
                   devBytes, devCalls, failedAt, sizeByte, decIdx, titleVars,
                   fileOpen>>

\* the read succeeds and header_info(buf) runs on the bank's header (its
\* title and hardware lines only print); after bank 1: free(buf); return 0;
TitleReadOk ==
    /\ pc \in {"title0", "title1"}
    /\ lastCall' = [op |-> "hdr", space |-> FROM_ROM,
                    addr |-> TitleBank * BANK_SIZE, len |-> 512,
                    off |-> 0, bound |-> 0]
    /\ LET h == cart[TitleBank + 1]
           i == LogoScan(h, 0)
           chk == CalculatedChk(h)
       IN  /\ bufBank' = TitleBank
           /\ logo_i' = i
           /\ calculated_chk' = chk
           /\ willboot' = WillbootAfterChk(WillbootAfterLogo(i), chk)
           /\ romSizeKB' = HeaderRomSizeKB(HeaderByte(h, HEADER_ROMSIZE))
    /\ IF pc = "title0"
       THEN pc' = "title1" /\ UNCHANGED <<exitStatus, devClaimed>>
       ELSE Terminate(0)
    /\ UNCHANGED <<cfgVars, offset, readuntil, untilset, size, fileBytes,
                   devBytes, devCalls, failedAt, sizeByte, decIdx, fileOpen>>

\* ---------------------------------------------------- the specification

Next ==
    \/ EmsInitFail
    \/ EmsInitOk
    \/ MallocFail
    \/ MallocOk
    \/ OpenReadFail
    \/ OpenReadOk
    \/ ReadBlockFail
    \/ ReadBlockFwriteFail
    \/ ReadBlockOk
    \/ ReadDone
    \/ OpenWriteFail
    \/ OpenWriteOk
    \/ SizeCheckFail
    \/ SizeCheckOk
    \/ WriteBlockFail
    \/ WriteBlockOk
    \/ WriteDone
    \/ WriteFreadError
    \/ TitleReadFail
    \/ TitleReadOk

Spec == Init /\ [][Next]_vars


\* ------------------------------------------------------------ properties

Exited == pc = "exited"
CompletedOk == Exited /\ exitStatus = 0

\* the ROM size table of the header format, in KB, written out
SizeTableKB(c) ==
    IF c \in 0..7 THEN <<32, 64, 128, 256, 512, 1024, 2048, 4096>>[c + 1]
    ELSE IF c = 82 THEN 1152
    ELSE IF c = 83 THEN 1280
    ELSE IF c = 84 THEN 1536
    ELSE Unknown

\* the first logo position that differs from nintylogo, 0x30 if none does
FirstMismatch(h) ==
    IF h.diff = {} THEN 48
    ELSE CHOOSE i \in h.diff : \A j \in h.diff : i <= j

\* the header's bytes sum, with 25, to a multiple of 256
ChecksumOk(h) == (h.title + h.code + h.chk + 25) % 256 = 0

\* C1: every device call of a transfer loop moves exactly blocksize bytes
\* of the selected space at bank * BANK_SIZE + offset, follows the previous
\* block directly, and is issued only while offset + blocksize is within
\* the bound in force, so that it ends within the space's nominal size.
C1_CallWithinBound ==
    lastCall.op \in {"read", "write"} =>
        /\ lastCall.len = blocksize
        /\ lastCall.space = space
        /\ lastCall.op = (IF mode = MODE_READ THEN "read" ELSE "write")
        /\ lastCall.off = (devCalls - 1) * blocksize
        /\ lastCall.addr = bank * BANK_SIZE + lastCall.off
        /\ lastCall.off + lastCall.len <= lastCall.bound
        /\ lastCall.bound <= limits(space)
        /\ lastCall.off + lastCall.len <= limits(space)

\* a ROM read of bank 1 whose last block ends exactly at the narrowed bound
C1_Witness ==
    /\ lastCall.op = "read"
    /\ bank = 1
    /\ untilset = 1
    /\ lastCall.bound < BANK_SIZE
    /\ lastCall.off + lastCall.len = lastCall.bound

\* C2 (as claimed): a transfer that completes without error ends with
\* offset a multiple of blocksize and offset <= the upper bound in force.
C2_FinalOffsetWithinBound ==
    (CompletedOk /\ mode \in {MODE_READ, MODE_WRITE}) =>
        /\ offset % blocksize = 0
        /\ offset <= (IF mode = MODE_READ THEN readuntil ELSE limits(space))

\* C3 (as claimed): a read that completes without error has written offset
\* bytes, and that is the ROM size the header byte at 0x148 declares (ROM,
\* known code), else the full size of the space.
C3_DumpSize ==
    (CompletedOk /\ mode = MODE_READ) =>
        /\ fileBytes = offset
        /\ offset = (IF space = FROM_ROM /\ SizeTableKB(cartCode) # Unknown
                     THEN SizeTableKB(cartCode) * 1024
                     ELSE limits(space))

\* C4 (as claimed): a write whose input file is longer than 4 MiB (ROM) or
\* 128 KiB (SRAM) issues no ems_write and ends with a non-zero status.
C4_OversizeRejected ==
    (/\ mode = MODE_WRITE
     /\ \/ (space = TO_ROM /\ FileLonger(inFile, BANK_SIZE))
        \/ (space = TO_SRAM /\ FileLonger(inFile, SRAM_SIZE))) =>
        /\ devCalls = 0
        /\ devBytes = 0
        /\ Exited => exitStatus # 0

\* C5: once a device call has failed at offset k the process has ended with
\* a non-zero status, the failed call is the last one (no retry, no later
\* call), and exactly the k bytes moved before it are in the output file
\* (read) or on the device (write).
C5_DeviceFailureStops ==
    failedAt # -1 =>
        /\ Exited
        /\ exitStatus # 0
        /\ lastCall.off = failedAt
        /\ devCalls = (failedAt \div blocksize) + 1
        /\ offset = failedAt
        /\ mode = MODE_READ => fileBytes = failedAt
        /\ mode = MODE_WRITE => devBytes = failedAt

\* a device read fails after at least two blocks went into the file
C5_Witness ==
    /\ mode = MODE_READ
    /\ failedAt > 0
    /\ devCalls >= 3
    /\ fileBytes = failedAt

\* C6 (as claimed): when the process has ended, on any path, the file handle
\* and the device handle have been released.
C6_HandlesReleased == Exited => (~fileOpen /\ ~devClaimed)

\* C7: header_info's boot verdict is None when the logo matches in at most
\* 0x18 leading bytes or the checksum fails, CgbOnly when it matches in more
\* than 0x18 and fewer than 0x30 leading bytes and the checksum passes,
\* Universal when all 0x30 match and the checksum passes; bytes after the
\* first mismatch play no part.
C7_BootVerdict ==
    bufBank # -1 =>
        LET h == cart[bufBank + 1]
            k == FirstMismatch(h)
        IN  /\ logo_i = k
            /\ (calculated_chk = 0) = ChecksumOk(h)
            /\ BootStatus(willboot) =
                  (IF k <= 24 \/ ~ChecksumOk(h) THEN "None"
                   ELSE IF k < 48 THEN "CgbOnly"
                   ELSE "Universal")

\* a logo whose only mismatch lies after byte 0x18, with a good checksum
C7_Witness ==
    /\ bufBank = 0
    /\ Cardinality(cart[1].diff) = 1
    /\ FirstMismatch(cart[1]) > 24
    /\ willboot = 1

\* C8: for the code c at 0x148, header_info reports and the read loop
\* narrows to the same size, the table's: (32 << c) KB for c in 0..7, 1152,
\* 1280, 1536 KB for 0x52, 0x53, 0x54; for any other c header_info reports
\* unknown and the read loop leaves the bound at the bank size.
C8_SizeTable ==
    /\ bufBank # -1 =>
          romSizeKB = SizeTableKB(cart[bufBank + 1].code)
    /\ sizeByte # -1 =>
          /\ readuntil = (IF SizeTableKB(sizeByte) = Unknown THEN BANK_SIZE
                          ELSE SizeTableKB(sizeByte) * 1024)
          /\ readuntil = (IF HeaderRomSizeKB(sizeByte) = Unknown
                          THEN BANK_SIZE
                          ELSE HeaderRomSizeKB(sizeByte) * 1024)

\* the read loop has narrowed its bound on code 0x53
C8_Witness == sizeByte = 83 /\ decIdx < blocksize /\ readuntil = 1310720

\* C9 (as claimed): the index the size byte is read from lies inside the
\* block just read.
C9_IndexInsideBlock == decIdx # -1 => decIdx \in 0..(blocksize - 1)

\* C10: in a read the bound changes only in the step that sets untilset,
\* untilset is never cleared again, and in an SRAM read the bound never
\* changes.
C10_NarrowedOnce ==
    [][pc = "read_loop" =>
          /\ (untilset = 1 \/ space = FROM_SRAM) => readuntil' = readuntil
          /\ untilset = 1 => untilset' = 1
          /\ readuntil' # readuntil => (untilset = 0 /\ untilset' = 1)]_vars

\* the bound was set from code 0x00 and seven more blocks were read after
C10_Witness ==
    /\ untilset = 1
    /\ sizeByte = 0
    /\ blocksize = BLOCKSIZE_READ
    /\ offset = 32768

=============================================================================
